---- MODULE Spec2Model ----
(***************************************************************************)
(* The projection AST of src/mongo/db/query/projection_ast.h: the node     *)
(* classes, their constructors, addChild, getChild, clone, acceptVisitor   *)
(* and destruction, over a heap of node cells and reference-counted BSON   *)
(* buffers.                                                                *)
(***************************************************************************)
EXTENDS Integers, Sequences, FiniteSets, TLC

\* Constructors are called while fewer than this many cells have been handed out.
MaxBuilt == 3
\* Number of clone() calls in a run.
MaxClones == 1
\* Size of the heap of node cells: room for what is built and for a clone per call.
MaxNodes == MaxBuilt * (1 + MaxClones)
\* Number of distinct BSON backing buffers.
MaxBufs == 2
\* Longest child list / field-name list handed to the path constructor.
MaxChildren == 2

\* Number of trees the builder holds at a time.
MaxOwned == 2

\* nullptr
Null == 0

Ids == 1..MaxNodes
Bufs == 1..MaxBufs
FieldNameSet == {"a", "b"}
\* boost::optional<int> skip: <<>> is boost::none.
Skips == {<<>>, <<2>>}
Limits == {5}
\* Expressions the builder hands to ExpressionASTNode.
BuilderExprs == {"literal", "legacy"}

VARIABLES heap, bufRefs, owned, status, ret, clones

vars == <<heap, bufRefs, owned, status, ret, clones>>

\* A cell of the heap that holds no node.
FreeCell ==
    [kind |-> "free", parent |-> Null, children |-> <<>>, fieldNames |-> <<>>,
     skip |-> <<>>, limit |-> 0, val |-> FALSE, bson |-> Null, expr |-> "none"]

\* What the last operation was called with and what it returned.
NoRet ==
    [op |-> "none", recv |-> Null, name |-> "", kids |-> <<>>, names |-> <<>>,
     result |-> Null, outcome |-> "ok", calls |-> <<>>]

\* A cell whose node was destroyed. Addresses are not handed out twice, so that a
\* node's identity is never confused with that of a node destroyed earlier.
FreedCell == [FreeCell EXCEPT !.kind = "freed"]

Live(h) == {i \in Ids : h[i].kind \notin {"free", "freed"}}

FreeIds(h) == {i \in Ids : h[i].kind = "free"}

\* The allocator's next cell.
NewId(h) == CHOOSE i \in FreeIds(h) : \A j \in FreeIds(h) : i <= j

Range(s) == {s[i] : i \in 1..Len(s)}

RECURSIVE SubtreeNodes(_, _)
SubtreeNodes(h, n) ==
    IF n = Null THEN {}
    ELSE {n} \cup UNION {SubtreeNodes(h, c) : c \in Range(h[n].children)}

RECURSIVE RootOf(_, _)
RootOf(h, n) == IF h[n].parent = Null THEN n ELSE RootOf(h, h[n].parent)

\* Mutant: the child is stored and its _parent is left as it was.
addChildToInternalVectorNoParent(h, this, node) ==
    [h EXCEPT ![this].children = Append(@, node)]

\* ASTNode::addChildToInternalVector
addChildToInternalVector(h, this, node) ==
    [h EXCEPT ![node].parent = this, ![this].children = Append(@, node)]

\* ASTNode::ASTNode(ASTNodeVector children)
ASTNodeCtor(h, this, children) ==
    [i \in Ids |->
        IF i = this THEN [h[i] EXCEPT !.children = children]
        ELSE IF i \in Range(children) THEN [h[i] EXCEPT !.parent = this]
        ELSE h[i]]

\* BSONObj copy: one more handle on the shared buffer.
Retain(refs, b) == [refs EXCEPT ![b] = @ + 1]

\* BSONObj destructor: one handle fewer; the buffer is freed at zero.
Release(refs, b) == [refs EXCEPT ![b] = @ - 1]

\* ~ASTNode and the derived destructors: the subtree is destroyed with the node.
RECURSIVE DestroyNode(_, _)
RECURSIVE DestroyAll(_, _, _)
DestroyAll(m, kids, i) ==
    IF i > Len(kids) THEN m ELSE DestroyAll(DestroyNode(m, kids[i]), kids, i + 1)

DestroyNode(m, n) ==
    LET m1 == IF m.h[n].kind = "Match"
              THEN [m EXCEPT !.refs = Release(m.refs, m.h[n].bson)]
              ELSE m
        m2 == DestroyAll(m1, m.h[n].children, 1)
    IN [m2 EXCEPT !.h[n] = FreedCell]

Init ==
    /\ heap = [i \in Ids |-> FreeCell]
    /\ bufRefs = [b \in Bufs |-> 0]
    /\ owned = {}
    /\ status = "running"
    /\ ret = NoRet
    /\ clones = 0

Running == status = "running"

\* The builder may construct one more node.
CanBuild == FreeIds(heap) # {} /\ Cardinality(Ids \ FreeIds(heap)) < MaxBuilt

CanAlloc == CanBuild /\ Cardinality(owned) < MaxOwned

\* BooleanConstantASTNode(bool val)
NewBooleanConstant(v) ==
    /\ Running /\ CanAlloc
    /\ LET id == NewId(heap) IN
        /\ heap' = [heap EXCEPT ![id] = [FreeCell EXCEPT !.kind = "Boolean", !.val = v]]
        /\ owned' = owned \cup {id}
        /\ ret' = [NoRet EXCEPT !.op = "newBoolean", !.result = id]
    /\ UNCHANGED <<bufRefs, status>>
    /\ UNCHANGED clones

\* ProjectionSliceASTNode(boost::optional<int> skip, int limit)
NewSlice(sk, lim) ==
    /\ Running /\ CanAlloc
    /\ LET id == NewId(heap) IN
        /\ heap' = [heap EXCEPT ![id] =
                        [FreeCell EXCEPT !.kind = "Slice", !.skip = sk, !.limit = lim]]
        /\ owned' = owned \cup {id}
        /\ ret' = [NoRet EXCEPT !.op = "newSlice", !.result = id]
    /\ UNCHANGED <<bufRefs, status>>
    /\ UNCHANGED clones

\* MatchExpressionASTNode(BSONObj bson, std::unique_ptr<MatchExpression> me): the node
\* keeps its own handle on the buffer; the builder's handles are gone afterwards.
NewMatch(b) ==
    /\ Running /\ CanAlloc
    /\ bufRefs[b] = 0
    /\ \A c \in Bufs : bufRefs[c] = 0 => b <= c
    /\ LET id == NewId(heap) IN
        /\ heap' = [heap EXCEPT ![id] = [FreeCell EXCEPT !.kind = "Match", !.bson = b]]
        /\ owned' = owned \cup {id}
        /\ ret' = [NoRet EXCEPT !.op = "newMatch", !.result = id]
    /\ bufRefs' = Retain(bufRefs, b)
    /\ UNCHANGED status
    /\ UNCHANGED clones

\* ExpressionASTNode(boost::intrusive_ptr<Expression> expr)
NewExpression(e) ==
    /\ Running /\ CanAlloc
    /\ LET id == NewId(heap) IN
        /\ heap' = [heap EXCEPT ![id] = [FreeCell EXCEPT !.kind = "Expression", !.expr = e]]
        /\ owned' = owned \cup {id}
        /\ ret' = [NoRet EXCEPT !.op = "newExpression", !.result = id]
    /\ UNCHANGED <<bufRefs, status>>
    /\ UNCHANGED clones

\* ProjectionPathASTNode()
NewPathEmpty ==
    /\ Running /\ CanAlloc
    /\ LET id == NewId(heap) IN
        /\ heap' = [heap EXCEPT ![id] = [FreeCell EXCEPT !.kind = "Path"]]
        /\ owned' = owned \cup {id}
        /\ ret' = [NoRet EXCEPT !.op = "newPathEmpty", !.result = id]
    /\ UNCHANGED <<bufRefs, status>>
    /\ UNCHANGED clones

\* The child vectors a builder can pass: owned handles, each at most once, and nulls.
KidSeqs ==
    {s \in UNION {[1..k -> owned \cup {Null}] : k \in 0..MaxChildren} :
        \A i, j \in 1..Len(s) : (i # j /\ s[i] # Null) => s[i] # s[j]}

NameSeqs == UNION {[1..k -> FieldNameSet] : k \in 0..MaxChildren}

\* ProjectionPathASTNode(ASTNodeVector children, std::vector<std::string> fieldNames)
NewPath(kids, names) ==
    /\ Running /\ CanBuild
    /\ Cardinality(owned \ Range(kids)) < MaxOwned
    /\ LET id == NewId(heap)
           r == [NoRet EXCEPT !.op = "newPath", !.kids = kids, !.names = names]
           built == [ASTNodeCtor([heap EXCEPT ![id] = [FreeCell EXCEPT !.kind = "Path"]],
                                 id, kids) EXCEPT ![id].fieldNames = names]
       IN
        IF Null \in Range(kids)
        THEN \* child->_parent = this on a null child: undefined behaviour
             \/ /\ status' = "segv"
                /\ ret' = [r EXCEPT !.outcome = "segv"]
                /\ UNCHANGED <<heap, owned>>
             \/ \* the store went through: the constructor goes on to the length check
                IF Len(kids) # Len(names)
                THEN /\ status' = "aborted"
                     /\ ret' = [r EXCEPT !.outcome = "abort"]
                     /\ UNCHANGED <<heap, owned>>
                ELSE /\ status' = "ub"
                     /\ heap' = built
                     /\ owned' = (owned \ Range(kids)) \cup {id}
                     /\ ret' = [r EXCEPT !.outcome = "ub", !.result = id]
        ELSE IF Len(kids) # Len(names)
        THEN \* invariant(_children.size() == _fieldNames.size())
             /\ status' = "aborted"
             /\ ret' = [r EXCEPT !.outcome = "abort"]
             /\ UNCHANGED <<heap, owned>>
        ELSE /\ heap' = built
             /\ owned' = (owned \ Range(kids)) \cup {id}
             /\ ret' = [r EXCEPT !.result = id]
             /\ UNCHANGED status
    /\ UNCHANGED bufRefs
    /\ UNCHANGED clones

\* Mutant: the constructor checks the child and then does not adopt it.
SingleMatchChildCtorDropsChild(kind, child, r) ==
    LET id == NewId(heap) IN
    IF child = Null
    THEN /\ status' = "aborted"
         /\ ret' = [r EXCEPT !.outcome = "abort"]
         /\ UNCHANGED <<heap, owned>>
    ELSE /\ heap' = [heap EXCEPT ![id] = [FreeCell EXCEPT !.kind = kind],
                                 ![child] = FreedCell]
         /\ owned' = (owned \ {child}) \cup {id}
         /\ ret' = [r EXCEPT !.result = id]
         /\ UNCHANGED status

\* ProjectionPositionalASTNode(std::unique_ptr<MatchExpressionASTNode> child) and
\* ProjectionElemMatchASTNode(std::unique_ptr<MatchExpressionASTNode> child)
SingleMatchChildCtor(kind, child, r) ==
    LET id == NewId(heap) IN
    IF child = Null
    THEN \* invariant(child)
         /\ status' = "aborted"
         /\ ret' = [r EXCEPT !.outcome = "abort"]
         /\ UNCHANGED <<heap, owned>>
    ELSE /\ heap' = addChildToInternalVector(
                        [heap EXCEPT ![id] = [FreeCell EXCEPT !.kind = kind]], id, child)
         /\ owned' = (owned \ {child}) \cup {id}
         /\ ret' = [r EXCEPT !.result = id]
         /\ UNCHANGED status

\* The handles the type std::unique_ptr<MatchExpressionASTNode> admits.
MatchHandles == {n \in owned : heap[n].kind = "Match"} \cup {Null}

NewPositional(child) ==
    /\ Running /\ CanBuild
    /\ SingleMatchChildCtor("Positional", child,
                            [NoRet EXCEPT !.op = "newPositional", !.kids = <<child>>])
    /\ UNCHANGED bufRefs
    /\ UNCHANGED clones

NewElemMatch(child) ==
    /\ Running /\ CanBuild
    /\ SingleMatchChildCtor("ElemMatch", child,
                            [NoRet EXCEPT !.op = "newElemMatch", !.kids = <<child>>])
    /\ UNCHANGED bufRefs
    /\ UNCHANGED clones

\* Mutant: the field name goes to the front of _fieldNames.
ProjectionPathASTNode_addChildNameFirst(h, this, fieldName, node) ==
    [addChildToInternalVector(h, this, node) EXCEPT ![this].fieldNames = <<fieldName>> \o @]

\* The body of ProjectionPathASTNode::addChild
ProjectionPathASTNode_addChild(h, this, fieldName, node) ==
    [addChildToInternalVector(h, this, node) EXCEPT ![this].fieldNames = Append(@, fieldName)]

\* A call of addChild(StringData fieldName, std::unique_ptr<ASTNode> node). The handle
\* given away owns another tree than the one the receiver is in.
AddChild(p, name, node) ==
    /\ Running
    /\ heap[p].kind = "Path"
    /\ node # RootOf(heap, p)
    /\ LET r == [NoRet EXCEPT !.op = "addChild", !.recv = p, !.name = name,
                              !.kids = <<node>>]
       IN
        IF node = Null
        THEN \* node->_parent = this on a null node: undefined behaviour
             \/ /\ status' = "segv"
                /\ ret' = [r EXCEPT !.outcome = "segv"]
                /\ UNCHANGED <<heap, owned>>
             \/ /\ status' = "ub"
                /\ heap' = [heap EXCEPT ![p].children = Append(@, Null),
                                        ![p].fieldNames = Append(@, name)]
                /\ ret' = [r EXCEPT !.outcome = "ub"]
                /\ UNCHANGED owned
        ELSE /\ heap' = ProjectionPathASTNode_addChild(heap, p, name, node)
             /\ owned' = owned \ {node}
             /\ ret' = r
             /\ UNCHANGED status
    /\ UNCHANGED bufRefs
    /\ UNCHANGED clones

\* Mutant: the scan keeps going and returns the last match.
RECURSIVE GetChildLoopLast(_, _, _, _)
GetChildLoopLast(h, p, fieldName, i) ==
    IF i > Len(h[p].fieldNames) THEN Null
    ELSE LET later == GetChildLoopLast(h, p, fieldName, i + 1) IN
         IF later # Null THEN later
         ELSE IF h[p].fieldNames[i] = fieldName THEN h[p].children[i]
         ELSE Null

\* The loop of ProjectionPathASTNode::getChild, from index i (1-based here).
RECURSIVE GetChildLoop(_, _, _, _)
GetChildLoop(h, p, fieldName, i) ==
    IF i > Len(h[p].fieldNames) THEN Null
    ELSE IF h[p].fieldNames[i] = fieldName THEN h[p].children[i]
    ELSE GetChildLoop(h, p, fieldName, i + 1)

\* ProjectionPathASTNode::getChild(StringData fieldName)
GetChild(p, fieldName) ==
    /\ Running
    /\ heap[p].kind = "Path"
    /\ LET r == [NoRet EXCEPT !.op = "getChild", !.recv = p, !.name = fieldName] IN
        IF Len(heap[p].fieldNames) # Len(heap[p].children)
        THEN \* invariant(_fieldNames.size() == _children.size())
             /\ status' = "aborted"
             /\ ret' = [r EXCEPT !.outcome = "abort"]
        ELSE /\ ret' = [r EXCEPT !.result = GetChildLoop(heap, p, fieldName, 1)]
             /\ UNCHANGED status
    /\ UNCHANGED <<heap, bufRefs, owned>>
    /\ UNCHANGED clones

\* Destruction of a tree through the handle that owns it.
Destroy(root) ==
    /\ Running
    /\ root \in owned
    /\ LET m == DestroyNode([h |-> heap, refs |-> bufRefs], root) IN
        /\ heap' = m.h
        /\ bufRefs' = m.refs
    /\ owned' = owned \ {root}
    /\ ret' = [NoRet EXCEPT !.op = "destroy", !.recv = root]
    /\ UNCHANGED status
    /\ UNCHANGED clones

\* Expression::serialize(false), wrapped in a document by the BSONObjBuilder.
Serialize(e) ==
    CASE e = "literal" -> "{'': {$const: 1}}"
      [] e = "const" -> "{'': {$const: 1}}"
      [] e = "legacy" -> "{'': {$legacy: 1}}"

\* Expression::parseOperand on the first element: the parsed expression, or a
\* thrown parse error (uassert) for an operator the parser does not know.
ParseOperand(doc) ==
    IF doc = "{'': {$const: 1}}"
    THEN [ok |-> TRUE, expr |-> "const"]
    ELSE [ok |-> FALSE, expr |-> "none"]

\* Mutant: nothing is destroyed on the way out (the partial clone leaks).
UnwindLeak(m, id) == m

\* Stack unwinding out of a copy constructor that threw: the children cloned so far
\* are destroyed with the _children vector, and make_unique's storage is returned.
Unwind(m, id) ==
    [DestroyAll(m, m.h[id].children, 1) EXCEPT !.h[id] = FreedCell]

\* Mutant: the clone views the buffer without a handle of its own.
MatchExpressionASTNodeCopyUnowned(m, id, other) ==
    [m |-> [m EXCEPT !.h[id].bson = m.h[other].bson], ok |-> TRUE]

\* MatchExpressionASTNode(const MatchExpressionASTNode& other): members after the base
MatchExpressionASTNodeCopy(m, id, other) ==
    [m |-> [h |-> [m.h EXCEPT ![id].bson = m.h[other].bson],
            refs |-> Retain(m.refs, m.h[other].bson)],
     ok |-> TRUE]

\* ProjectionPathASTNode's implicit copy constructor: members after the base
ProjectionPathASTNodeCopy(m, id, other) ==
    [m |-> [m EXCEPT !.h[id].fieldNames = m.h[other].fieldNames], ok |-> TRUE]

\* Mutant: _skip is left at boost::none.
ProjectionSliceASTNodeCopyNoSkip(m, id, other) ==
    [m |-> [m EXCEPT !.h[id].limit = m.h[other].limit], ok |-> TRUE]

\* ProjectionSliceASTNode's implicit copy constructor
ProjectionSliceASTNodeCopy(m, id, other) ==
    [m |-> [m EXCEPT !.h[id].skip = m.h[other].skip, !.h[id].limit = m.h[other].limit],
     ok |-> TRUE]

\* BooleanConstantASTNode's implicit copy constructor
BooleanConstantASTNodeCopy(m, id, other) ==
    [m |-> [m EXCEPT !.h[id].val = m.h[other].val], ok |-> TRUE]

\* ExpressionASTNode(const ExpressionASTNode& other): serialize, then parse again
ExpressionASTNodeCopy(m, id, other) ==
    LET clonedExpr == ParseOperand(Serialize(m.h[other].expr)) IN
    IF clonedExpr.ok
    THEN [m |-> [m EXCEPT !.h[id].expr = clonedExpr.expr], ok |-> TRUE]
    ELSE [m |-> m, ok |-> FALSE]

\* The derived part of the copy constructor that clone() of each class runs.
CopyDerived(m, id, other) ==
    CASE m.h[other].kind = "Match" -> MatchExpressionASTNodeCopy(m, id, other)
      [] m.h[other].kind = "Path" -> ProjectionPathASTNodeCopy(m, id, other)
      [] m.h[other].kind = "Slice" -> ProjectionSliceASTNodeCopy(m, id, other)
      [] m.h[other].kind = "Boolean" -> BooleanConstantASTNodeCopy(m, id, other)
      [] m.h[other].kind = "Expression" -> ExpressionASTNodeCopy(m, id, other)
      [] OTHER -> [m |-> m, ok |-> TRUE]

\* Mutant: the child pointers are copied instead of the children being cloned.
ASTNodeCopyShallow(m, this, kids, i) ==
    [m |-> [m EXCEPT !.h[this].children = kids], ok |-> TRUE]

RECURSIVE CloneNode(_, _)
RECURSIVE ASTNodeCopy(_, _, _, _)
\* ASTNode(const ASTNode& other): the loop over other._children, from index i
ASTNodeCopy(m, this, kids, i) ==
    IF i > Len(kids) THEN [m |-> m, ok |-> TRUE]
    ELSE LET c == CloneNode(m, kids[i]) IN
         IF ~c.ok THEN [m |-> c.m, ok |-> FALSE]
         ELSE ASTNodeCopy([c.m EXCEPT !.h = addChildToInternalVector(c.m.h, this, c.root)],
                          this, kids, i + 1)

\* clone() of every class: std::make_unique<T>(*this)
CloneNode(m, n) ==
    LET id == NewId(m.h)
        m0 == [m EXCEPT !.h[id] = [FreeCell EXCEPT !.kind = m.h[n].kind]]
        base == ASTNodeCopy(m0, id, m.h[n].children, 1)
        derived == CopyDerived(base.m, id, n)
    IN IF ~base.ok THEN [m |-> Unwind(base.m, id), root |-> Null, ok |-> FALSE]
       ELSE IF ~derived.ok THEN [m |-> Unwind(derived.m, id), root |-> Null, ok |-> FALSE]
       ELSE [m |-> derived.m, root |-> id, ok |-> TRUE]

\* A call of clone() on any node of a tree; the caller owns the result.
Clone(n) ==
    /\ Running
    /\ n \in Live(heap)
    /\ Cardinality(owned) < MaxOwned
    /\ clones < MaxClones
    /\ Cardinality(FreeIds(heap)) >= Cardinality(SubtreeNodes(heap, n))
    /\ clones' = clones + 1
    /\ LET c == CloneNode([h |-> heap, refs |-> bufRefs], n)
           r == [NoRet EXCEPT !.op = "clone", !.recv = n]
       IN
        /\ heap' = c.m.h
        /\ bufRefs' = c.m.refs
        /\ IF c.ok
           THEN /\ owned' = owned \cup {c.root}
                /\ ret' = [r EXCEPT !.result = c.root]
           ELSE \* the exception of parseOperand reaches the caller of clone()
                /\ owned' = owned
                /\ ret' = [r EXCEPT !.outcome = "exception"]
    /\ UNCHANGED status

\* The visit overload each class's acceptVisitor names with its static type of this.
MatchExpressionASTNode_acceptVisitor(this) ==
    <<[visit |-> "MatchExpressionASTNode", node |-> this]>>
ProjectionPathASTNode_acceptVisitor(this) ==
    <<[visit |-> "ProjectionPathASTNode", node |-> this]>>
ProjectionPositionalASTNode_acceptVisitor(this) ==
    <<[visit |-> "ProjectionPositionalASTNode", node |-> this]>>
ProjectionSliceASTNode_acceptVisitor(this) ==
    <<[visit |-> "ProjectionSliceASTNode", node |-> this]>>
\* Mutant: the overload of the positional node is named.
ProjectionElemMatchASTNode_acceptVisitorWrong(this) ==
    <<[visit |-> "ProjectionPositionalASTNode", node |-> this]>>
ProjectionElemMatchASTNode_acceptVisitor(this) ==
    <<[visit |-> "ProjectionElemMatchASTNode", node |-> this]>>
ExpressionASTNode_acceptVisitor(this) ==
    <<[visit |-> "ExpressionASTNode", node |-> this]>>
BooleanConstantASTNode_acceptVisitor(this) ==
    <<[visit |-> "BooleanConstantASTNode", node |-> this]>>

\* The virtual call node->acceptVisitor(visitor): the visitor's operations invoked,
\* in order, by the node layer (the visitor here records and does nothing else).
VirtualAcceptVisitor(h, n) ==
    CASE h[n].kind = "Match" -> MatchExpressionASTNode_acceptVisitor(n)
      [] h[n].kind = "Path" -> ProjectionPathASTNode_acceptVisitor(n)
      [] h[n].kind = "Positional" -> ProjectionPositionalASTNode_acceptVisitor(n)
      [] h[n].kind = "Slice" -> ProjectionSliceASTNode_acceptVisitor(n)
      [] h[n].kind = "ElemMatch" -> ProjectionElemMatchASTNode_acceptVisitor(n)
      [] h[n].kind = "Expression" -> ExpressionASTNode_acceptVisitor(n)
      [] h[n].kind = "Boolean" -> BooleanConstantASTNode_acceptVisitor(n)

AcceptVisitor(n) ==
    /\ Running
    /\ n \in Live(heap)
    /\ ret' = [NoRet EXCEPT !.op = "acceptVisitor", !.recv = n,
                            !.calls = VirtualAcceptVisitor(heap, n)]
    /\ UNCHANGED <<heap, bufRefs, owned, status>>
    /\ UNCHANGED clones

Next ==
    \/ \E v \in BOOLEAN : NewBooleanConstant(v)
    \/ \E sk \in Skips, lim \in Limits : NewSlice(sk, lim)
    \/ \E b \in Bufs : NewMatch(b)
    \/ \E e \in BuilderExprs : NewExpression(e)
    \/ NewPathEmpty
    \/ \E kids \in KidSeqs, names \in NameSeqs : NewPath(kids, names)
    \/ \E c \in MatchHandles : NewPositional(c)
    \/ \E c \in MatchHandles : NewElemMatch(c)
    \/ \E p \in Live(heap), name \in FieldNameSet, node \in owned \cup {Null} :
            AddChild(p, name, node)
    \/ \E p \in Live(heap), name \in FieldNameSet : GetChild(p, name)
    \/ \E n \in Live(heap) : Clone(n)
    \/ \E n \in Live(heap) : AcceptVisitor(n)
    \/ \E r \in owned : Destroy(r)

Spec == Init /\ [][Next]_vars

(***************************************************************************)
(* Properties                                                              *)
(***************************************************************************)

Count(seq, x) == Cardinality({i \in 1..Len(seq) : seq[i] = x})

PathNodes(h) == {n \in Live(h) : h[n].kind = "Path"}

CloneReturned == ret.op = "clone" /\ ret.outcome = "ok"

\* C1: every node with a parent is exactly once among that parent's children and
\* every child names its parent; each tree has one root, the node without a parent,
\* and that root is the node the tree's handle owns.
ParentChildConsistent ==
    /\ \A n \in Live(heap) :
        /\ heap[n].parent # Null =>
              /\ heap[n].parent \in Live(heap)
              /\ Count(heap[heap[n].parent].children, n) = 1
        /\ \A i \in 1..Len(heap[n].children) :
              heap[n].children[i] # Null =>
                  /\ heap[n].children[i] \in Live(heap)
                  /\ heap[heap[n].children[i]].parent = n
        /\ LET tree == SubtreeNodes(heap, RootOf(heap, n)) IN
              /\ n \in tree
              /\ {x \in tree : heap[x].parent = Null} = {RootOf(heap, n)}
    /\ owned = {n \in Live(heap) : heap[n].parent = Null}

\* A clone with children of its own: links set by the copy constructor.
ParentChildWitness ==
    /\ CloneReturned
    /\ heap[ret.result].children # <<>>
    /\ \E p \in PathNodes(heap) : Len(heap[p].children) >= 1

RECURSIVE SameShape(_, _, _)
SameShape(h, a, b) ==
    /\ h[a].kind = h[b].kind
    /\ Len(h[a].children) = Len(h[b].children)
    /\ h[a].kind = "Path" => h[a].fieldNames = h[b].fieldNames
    /\ h[a].kind = "Slice" => h[a].limit = h[b].limit /\ h[a].skip = h[b].skip
    /\ h[a].kind = "Boolean" => h[a].val = h[b].val
    /\ \A i \in 1..Len(h[a].children) : SameShape(h, h[a].children[i], h[b].children[i])

\* C2: the tree clone() returns has the shape of the tree it was called on: kinds,
\* number and order of children, field names, limit and skip, boolean value.
CloneSameShape == CloneReturned => SameShape(heap, ret.recv, ret.result)

\* The path node with a: BooleanConstant(true) and b: Slice(skip 2, limit 5) was
\* cloned.
CloneSameShapeWitness ==
    /\ CloneReturned
    /\ heap[ret.recv].kind = "Path"
    /\ heap[ret.recv].fieldNames = <<"a", "b">>
    /\ heap[heap[ret.recv].children[1]].kind = "Boolean"
    /\ heap[heap[ret.recv].children[1]].val
    /\ heap[heap[ret.recv].children[2]].kind = "Slice"
    /\ heap[heap[ret.recv].children[2]].skip = <<2>>
    /\ heap[heap[ret.recv].children[2]].limit = 5

GetChildFirstMatch ==
    [][ret'.op = "getChild" =>
          LET p == ret'.recv
              hits == {i \in 1..Len(heap[p].fieldNames) : heap[p].fieldNames[i] = ret'.name}
          IN /\ ret'.outcome = "ok"
             /\ status' = "running"
             /\ IF hits = {} THEN ret'.result = Null
                ELSE \E i \in hits : /\ \A j \in hits : i <= j
                                     /\ ret'.result = heap[p].children[i]
             /\ UNCHANGED <<heap, bufRefs, owned>>
      ]_vars

\* The name asked for is the name of two children, and the first was returned.
GetChildFirstMatchWitness ==
    /\ ret.op = "getChild"
    /\ \E i, j \in 1..Len(heap[ret.recv].fieldNames) :
          /\ i < j
          /\ heap[ret.recv].fieldNames[i] = ret.name
          /\ heap[ret.recv].fieldNames[j] = ret.name
          /\ heap[ret.recv].children[i] # heap[ret.recv].children[j]
          /\ ret.result = heap[ret.recv].children[i]

SingleMatchKinds == {"Positional", "ElemMatch"}

\* C6: a positional or elemMatch constructor given nullptr ends in the fatal
\* assertion and returns no node; every positional and elemMatch node, cloned ones
\* included, has exactly one child, and it is a match expression node.
SingleMatchChild ==
    /\ \A n \in Live(heap) :
          heap[n].kind \in SingleMatchKinds =>
              /\ Len(heap[n].children) = 1
              /\ heap[n].children[1] \in Live(heap)
              /\ heap[heap[n].children[1]].kind = "Match"
    /\ (ret.op \in {"newPositional", "newElemMatch"} /\ ret.kids = <<Null>>) =>
          status = "aborted" /\ ret.result = Null
    /\ (ret.op \in {"newPositional", "newElemMatch"} /\ status = "running") =>
          heap[ret.result].children = ret.kids

\* A positional or elemMatch node was cloned.
SingleMatchChildWitness ==
    /\ CloneReturned
    /\ heap[ret.result].kind \in SingleMatchKinds

\* The visitor operation declared for each node kind.
VisitFor(kind) ==
    CASE kind = "Match" -> "MatchExpressionASTNode"
      [] kind = "Path" -> "ProjectionPathASTNode"
      [] kind = "Positional" -> "ProjectionPositionalASTNode"
      [] kind = "Slice" -> "ProjectionSliceASTNode"
      [] kind = "ElemMatch" -> "ProjectionElemMatchASTNode"
      [] kind = "Expression" -> "ExpressionASTNode"
      [] kind = "Boolean" -> "BooleanConstantASTNode"

\* C7: one acceptVisitor on a node invokes the visitor operation of that node's kind,
\* with that node, once, invokes nothing else, and changes nothing.
VisitorDispatch ==
    [][ret'.op = "acceptVisitor" =>
          /\ ret'.calls = <<[visit |-> VisitFor(heap[ret'.recv].kind), node |-> ret'.recv]>>
          /\ UNCHANGED <<heap, bufRefs, owned, status>>
      ]_vars

\* acceptVisitor on an elemMatch node that has a child and a parent.
VisitorDispatchWitness ==
    /\ ret.op = "acceptVisitor"
    /\ heap[ret.recv].kind = "ElemMatch"
    /\ heap[ret.recv].children # <<>>
    /\ heap[ret.recv].parent # Null

\* C8: a null child given to the path constructor, addChild, or the positional and
\* elemMatch constructors ends in the fatal assertion, and no node has a null child.
NullChildAborts ==
    /\ (ret.op \in {"newPath", "addChild", "newPositional", "newElemMatch"}
            /\ Null \in Range(ret.kids)) => status = "aborted"
    /\ \A n \in Live(heap) : Null \notin Range(heap[n].children)

\* The expression nodes of a subtree whose serialized form does not parse.
Unparsable(h, n) ==
    {x \in SubtreeNodes(h, n) :
        h[x].kind = "Expression" /\ ~ParseOperand(Serialize(h[x].expr)).ok}

\* C9: clone() fails exactly when the subtree holds an expression that does not parse
\* again; the failure reaches the caller as an exception, the process keeps running,
\* no node is returned or left behind, and no node or buffer count has changed.
CloneFailureSurfaced ==
    [][ret'.op = "clone" =>
          /\ (ret'.outcome = "exception") = (Unparsable(heap, ret'.recv) # {})
          /\ ret'.outcome \in {"ok", "exception"}
          /\ status' = "running"
          /\ ret'.outcome = "exception" =>
                /\ ret'.result = Null
                /\ owned' = owned
                /\ Live(heap') = Live(heap)
                /\ \A x \in Live(heap) : heap'[x] = heap[x]
                /\ bufRefs' = bufRefs
      ]_vars

\* clone() of a path node failed at its second child, after its first child, a match
\* expression node, had been cloned.
CloneFailureWitness ==
    /\ ret.op = "clone" /\ ret.outcome = "exception"
    /\ Len(heap[ret.recv].children) = 2
    /\ heap[heap[ret.recv].children[1]].kind = "Match"
    /\ heap[ret.recv].children[2] \in Unparsable(heap, ret.recv)
    /\ status = "running"

\* C10: every live match node's buffer is alive, and a buffer has exactly as many
\* handles as there are live match nodes holding it, so it is released when the last
\* of them is destroyed and not before.
BufferAlive ==
    /\ \A n \in Live(heap) :
          heap[n].kind = "Match" => heap[n].bson \in Bufs /\ bufRefs[heap[n].bson] >= 1
    /\ \A b \in Bufs :
          bufRefs[b] = Cardinality({n \in Live(heap) : heap[n].kind = "Match" /\ heap[n].bson = b})

\* The original of a cloned positional or elemMatch tree was destroyed (its buffer
\* has one handle left) and the clone, whose child was allocated after it, lives on.
BufferAliveWitness ==
    /\ ret.op = "destroy"
    /\ \E n \in Live(heap) :
          /\ heap[n].kind \in SingleMatchKinds
          /\ heap[n].children[1] > n
          /\ bufRefs[heap[heap[n].children[1]].bson] = 1
====
